---- MODULE Spec2Model ----
(***************************************************************************)
(* A model of the argpar command-line argument parser (argpar.c).          *)
(*                                                                         *)
(* A C string is a finite sequence of one-character strings; reading the   *)
(* position just after its end yields NUL.  A pointer that may be NULL is  *)
(* the empty tuple (NULL) or a one-element tuple holding the pointee.      *)
(* `iter.short_opt_ch', a pointer into argv[iter.i], is the 1-based        *)
(* position of the designated character in that argument, 0 when NULL.     *)
(* An error message is the sequence of the pieces its format string        *)
(* concatenates.                                                           *)
(*                                                                         *)
(* Memory allocation always succeeds in specification Spec; in             *)
(* specification SpecOOM the allocation of an item, of the copy of an      *)
(* option argument or of the grown item array may fail.                    *)
(***************************************************************************)
EXTENDS Integers, Sequences, FiniteSets, TLC

VARIABLES
    argv,       \* original arguments given to argpar_iter_create()/argpar_parse()
    descrs,     \* option descriptors (without the sentinel)
    pc,         \* "start", "iter" (the user calls next), "parse_end"
    iter,       \* struct argpar_iter: i, non_opt_index, short_opt_ch
    status,     \* status returned by the last argpar_iter_parse_next() call
    item,       \* *item after the last call (caller resets it to NULL before)
    error,      \* *error after the last call
    fail_on_unknown_opt, \* parameter of the running argpar_parse() call
    parse_ret,  \* struct argpar_parse_ret of the running argpar_parse() call
    pre,        \* history: iter at the entry of the last next call
    produced,   \* history: items returned by OK calls, with their provenance
    oom,        \* history: the allocation that failed in the last call:
                \* "NONE", "ITEM" (an item or its argument), "ARRAY"
    iters,      \* two more iterators created on argv and descrs
    logs        \* history: for each of them, what its next calls returned

vars == <<argv, descrs, pc, iter, status, item, error, fail_on_unknown_opt,
          parse_ret, pre, produced, oom, iters, logs>>

----------------------------------------------------------------------------
(* Bounds of the model *)

NUL == "NUL"

\* Size in bytes of the arguments of a vector, their terminating NULs included
MaxArgvBytes == 7

\* The same size for the vectors of specification SpecOOM
MaxOOMBytes == 4

\* Number of options of the longest group of short options of SpecOOM: more
\* than the initial size of the item array
MaxGroupLen == 11

\* Size in bytes of the arguments two iterators run on, and number of next
\* calls made on each of them
MaxPairBytes == 4
MaxCalls == 5

\* Size in bytes of the arguments of specification SpecRound
MaxRoundBytes == 6

\* Number of options of the longest group of short options of SpecLoop:
\* more than twice the initial size of the item array
MaxLoopLen == 21

Alphabet == {"-", "=", "a", "b"}

\* The arguments laid out in a block of bytes, each one up to its NUL; the
\* block ends with the NUL of the last argument
RECURSIVE SplitArgs(_, _, _)
SplitArgs(block, k, arg) ==
    IF k > Len(block) THEN <<>>
    ELSE IF block[k] = NUL THEN <<arg>> \o SplitArgs(block, k + 1, <<>>)
    ELSE SplitArgs(block, k + 1, Append(arg, block[k]))

\* The blocks of n bytes, the last NUL excluded
ArgBlocks(n) == [1..n -> Alphabet \cup {NUL}]

ArgvOfBlock(block) ==
    SplitArgs([k \in 1..(Len(block) + 1) |->
                  IF k <= Len(block) THEN block[k] ELSE NUL], 1, <<>>)

----------------------------------------------------------------------------
(* C strings and pointers *)

NULL == <<>>

Ptr(x) == <<x>>

Deref(p) == p[1]

CharAt(s, k) == IF k >= 1 /\ k <= Len(s) THEN s[k] ELSE NUL

Suffix(s, k) == SubSeq(s, k, Len(s))

\* i < n - 1 on unsigned int: n - 1 wraps to UINT_MAX when n is 0, and the
\* indices of the model are all below UINT_MAX
unsigned_lt_pred(i, n) == IF n = 0 THEN TRUE ELSE i < n - 1

Digits == <<"0", "1", "2", "3", "4", "5", "6", "7", "8", "9">>

RECURSIVE FormatUInt(_)
FormatUInt(n) ==
    IF n < 10 THEN <<Digits[n + 1]>>
    ELSE FormatUInt(n \div 10) \o <<Digits[(n % 10) + 1]>>

----------------------------------------------------------------------------
(* Option descriptors *)

Descr(id, short_name, long_name, with_arg) ==
    [id |-> id, short_name |-> short_name, long_name |-> long_name,
     with_arg |-> with_arg]

DescrsAB ==
    << Descr(1, "a", Ptr(<<"a", "b">>), FALSE),
       Descr(2, "b", Ptr(<<"b">>), TRUE) >>

\* The third descriptor has the long name of the first one and the short
\* name of the second one; the fourth one has a short name only and takes
\* an argument
DescrsLongOnly ==
    << Descr(1, NUL, Ptr(<<"a">>), TRUE),
       Descr(2, "a", NULL, FALSE),
       Descr(3, "a", Ptr(<<"a">>), TRUE),
       Descr(4, "b", NULL, TRUE) >>

\* The second descriptor has a short name of its own and the long name of
\* the first one
DescrsSameLong ==
    << Descr(1, NUL, Ptr(<<"a">>), TRUE),
       Descr(2, "b", Ptr(<<"a">>), TRUE) >>

DescrTables == {DescrsAB, DescrsLongOnly}

\* Mutant: a long name is compared on the length of the name looked up only
descr_matches_prefix(descr, short_name, long_name) ==
    \/ short_name # NUL /\ descr.short_name # NUL
         /\ short_name = descr.short_name
    \/ long_name # NULL /\ descr.long_name # NULL
         /\ Len(Deref(long_name)) <= Len(Deref(descr.long_name))
         /\ Deref(long_name)
                = SubSeq(Deref(descr.long_name), 1, Len(Deref(long_name)))

descr_matches(descr, short_name, long_name) ==
    \/ short_name # NUL /\ descr.short_name # NUL
         /\ short_name = descr.short_name
    \/ long_name # NULL /\ descr.long_name # NULL
         /\ Deref(long_name) = Deref(descr.long_name)

\* Mutant: the last descriptor that matches is returned
find_descr_from_last(ds, k, short_name, long_name) ==
    IF \E j \in k..Len(ds) : descr_matches(ds[j], short_name, long_name)
    THEN CHOOSE j \in k..Len(ds) :
             /\ descr_matches(ds[j], short_name, long_name)
             /\ \A h \in (j + 1)..Len(ds) :
                    ~descr_matches(ds[h], short_name, long_name)
    ELSE 0

RECURSIVE find_descr_from(_, _, _, _)
find_descr_from(ds, k, short_name, long_name) ==
    IF k > Len(ds) THEN 0
    ELSE IF descr_matches(ds[k], short_name, long_name) THEN k
    ELSE find_descr_from(ds, k + 1, short_name, long_name)

\* Mutant: a short name also matches a long name made of that character
find_descr_any_name(ds, short_name, long_name) ==
    find_descr_from(ds, 1, short_name,
                    IF long_name = NULL THEN Ptr(<<short_name>>)
                    ELSE long_name)

\* Position in the table of the found descriptor, 0 for NULL
find_descr(ds, short_name, long_name) ==
    find_descr_from(ds, 1, short_name, long_name)

----------------------------------------------------------------------------
(* Items *)

\* Mutant: the argument is not copied into the item
create_opt_item_no_arg(descr, arg) ==
    [type |-> "OPT", descr |-> descr, arg |-> NULL]

create_opt_item(descr, arg) ==
    [type |-> "OPT", descr |-> descr, arg |-> arg]

\* Mutant: the two indices are exchanged
create_non_opt_item_swapped(arg, orig_index, non_opt_index) ==
    [type |-> "NON_OPT", arg |-> arg, orig_index |-> non_opt_index,
     non_opt_index |-> orig_index]

create_non_opt_item(arg, orig_index, non_opt_index) ==
    [type |-> "NON_OPT", arg |-> arg, orig_index |-> orig_index,
     non_opt_index |-> non_opt_index]

----------------------------------------------------------------------------
(* Error messages *)

\* The grave accent character that quotes names in the messages
BQ == "BQ"

try_append_string_printf(str, addendum) ==
    IF str = NULL THEN Ptr(addendum) ELSE Ptr(Deref(str) \o addendum)

\* Mutant: the old message is released and the new one is not stored
try_prepend_lost(err, i, arg) == NULL

try_prepend_while_parsing_arg_to_error(err, i, arg) ==
    Ptr(<<"While parsing argument #">> \o FormatUInt(i + 1)
        \o <<" (", BQ>> \o arg \o <<BQ, "): ">> \o Deref(err))

MsgInvalidArgument == <<"Invalid argument">>

MsgUnknownShort(c) == <<"Unknown option ", BQ, "-", c, BQ>>

MsgMissingShort(c) == <<"Missing required argument for option ", BQ, "-", c, BQ>>

MsgInvalidLong(long_opt_arg) ==
    <<"Invalid argument ", BQ, "--">> \o long_opt_arg \o <<BQ>>

MsgUnknownLong(name) == <<"Unknown option ", BQ, "--">> \o name \o <<BQ>>

MsgMissingLong(name) ==
    <<"Missing required argument for option ", BQ, "--">> \o name \o <<BQ>>

MsgUnexpectedLong(name) ==
    <<"Unexpected argument for option ", BQ, "--">> \o name \o <<BQ>>

----------------------------------------------------------------------------
(* Parsing one original argument *)

ParseResult(ret, it, itm, err) ==
    [ret |-> ret, iter |-> it, item |-> itm, error |-> err]

\* The cursor once parse_short_opts() has set it when it was NULL
short_opt_cursor(it) == IF it.short_opt_ch = 0 THEN 2 ELSE it.short_opt_ch

\* Mutant: the form without a space is forgotten
short_opt_arg_next(orig_arg, ch, next_orig_arg) == <<next_orig_arg, TRUE>>

\* Mutant: the glued argument starts at the option character
short_opt_arg_with_name(orig_arg, ch, next_orig_arg) ==
    IF CharAt(orig_arg, ch + 1) # NUL
    THEN <<Ptr(Suffix(orig_arg, ch)), FALSE>>
    ELSE <<next_orig_arg, TRUE>>

\* Mutant: an absent following original argument gives an empty argument
short_opt_arg_empty(orig_arg, ch, next_orig_arg) ==
    IF CharAt(orig_arg, ch + 1) # NUL
    THEN <<Ptr(Suffix(orig_arg, ch + 1)), FALSE>>
    ELSE IF next_orig_arg = NULL THEN <<Ptr(<<>>), FALSE>>
    ELSE <<next_orig_arg, TRUE>>

\* Mutant: an empty following original argument is no argument
short_opt_arg_not_empty(orig_arg, ch, next_orig_arg) ==
    IF CharAt(orig_arg, ch + 1) # NUL
    THEN <<Ptr(Suffix(orig_arg, ch + 1)), FALSE>>
    ELSE IF next_orig_arg # NULL /\ Deref(next_orig_arg) = <<>>
    THEN <<NULL, FALSE>>
    ELSE <<next_orig_arg, TRUE>>

\* Argument of a short option with an argument: <<opt_arg, used_next_orig_arg>>
short_opt_arg(orig_arg, ch, next_orig_arg) ==
    IF CharAt(orig_arg, ch + 1) # NUL
    THEN <<Ptr(Suffix(orig_arg, ch + 1)), FALSE>>
    ELSE <<next_orig_arg, TRUE>>

\* Mutant: the cursor is not cleared when the group is left
short_opt_advance_keep_cursor(it, orig_arg, ch, with_arg, used_next_orig_arg) ==
    IF with_arg \/ CharAt(orig_arg, ch + 1) = NUL
    THEN [it EXCEPT !.short_opt_ch = ch + 1,
                    !.i = it.i + (IF used_next_orig_arg THEN 2 ELSE 1)]
    ELSE [it EXCEPT !.short_opt_ch = ch + 1]

\* Mutant: the group is left after its first option
short_opt_advance_skip(it, orig_arg, ch, with_arg, used_next_orig_arg) ==
    [it EXCEPT !.short_opt_ch = 0,
               !.i = it.i + (IF used_next_orig_arg THEN 2 ELSE 1)]

\* Iterator once parse_short_opts() has produced the item of character ch
short_opt_advance(it, orig_arg, ch, with_arg, used_next_orig_arg) ==
    IF with_arg \/ CharAt(orig_arg, ch + 1) = NUL
    THEN [it EXCEPT !.short_opt_ch = 0,
                    !.i = it.i + (IF used_next_orig_arg THEN 2 ELSE 1)]
    ELSE [it EXCEPT !.short_opt_ch = ch + 1]

\* Mutant: the cursor is forgotten instead of being kept
short_opt_set_cursor_reset(it) == [it EXCEPT !.short_opt_ch = 0]

\* Iterator once parse_short_opts() has set the cursor when it was NULL
short_opt_set_cursor(it) == [it EXCEPT !.short_opt_ch = short_opt_cursor(it)]

parse_short_opts(orig_arg, next_orig_arg, ds, it) ==
    IF Len(orig_arg) - 1 = 0
    THEN ParseResult("ERROR", it, NULL,
                     try_append_string_printf(NULL, MsgInvalidArgument))
    ELSE
      LET ch == short_opt_cursor(it)
          it1 == short_opt_set_cursor(it)
          c == CharAt(orig_arg, ch)
          descr == find_descr(ds, c, NULL)
      IN  IF descr = 0
          THEN ParseResult("ERROR_UNKNOWN_OPT", it1, NULL,
                   try_append_string_printf(NULL, MsgUnknownShort(c)))
          ELSE
            LET oa == IF ds[descr].with_arg
                      THEN short_opt_arg(orig_arg, ch, next_orig_arg)
                      ELSE <<NULL, FALSE>>
                opt_arg == oa[1]
                used_next_orig_arg == oa[2]
            IN  IF ds[descr].with_arg
                     /\ (\/ opt_arg = NULL
                         \/ CharAt(orig_arg, ch + 1) # NUL
                              /\ Len(Deref(opt_arg)) = 0)
                THEN ParseResult("ERROR", it1, NULL,
                         try_append_string_printf(NULL, MsgMissingShort(c)))
                ELSE ParseResult("OK",
                         short_opt_advance(it1, orig_arg, ch,
                             ds[descr].with_arg, used_next_orig_arg),
                         Ptr(create_opt_item(descr, opt_arg)), NULL)

max_len == 127

\* Position of the first `=` of s, 0 when there is none (strchr)
strchr_eq_from(s, k) ==
    IF \E j \in k..Len(s) : s[j] = "="
    THEN CHOOSE j \in k..Len(s) :
             s[j] = "=" /\ \A h \in k..(j - 1) : s[h] # "="
    ELSE 0

\* Mutant: the last `=` instead of the first one (strrchr)
eq_pos_last(long_opt_arg) ==
    IF \E k \in 1..Len(long_opt_arg) : long_opt_arg[k] = "="
    THEN CHOOSE k \in 1..Len(long_opt_arg) :
             /\ long_opt_arg[k] = "="
             /\ \A j \in (k + 1)..Len(long_opt_arg) : long_opt_arg[j] # "="
    ELSE 0

eq_pos(long_opt_arg) == strchr_eq_from(long_opt_arg, 1)

\* Mutant: the name is not cut at the `=`
long_opt_name_whole(long_opt_arg) == long_opt_arg

\* Name of the long option: the text before the first `=`, if any
long_opt_name(long_opt_arg) ==
    IF eq_pos(long_opt_arg) # 0
    THEN SubSeq(long_opt_arg, 1, eq_pos(long_opt_arg) - 1)
    ELSE long_opt_arg

\* Mutant: the original argument used as option argument is not skipped
long_opt_advance_one(it, used_next_orig_arg) == [it EXCEPT !.i = it.i + 1]

\* Iterator once parse_long_opt() has produced an item
long_opt_advance(it, used_next_orig_arg) ==
    [it EXCEPT !.i = it.i + (IF used_next_orig_arg THEN 2 ELSE 1)]

\* Mutant: the `=` of an option without argument goes unnoticed
long_opt_unexpected_arg_never(with_arg, eq) == FALSE

\* Whether an option that takes no argument is given one with `=`
long_opt_unexpected_arg(with_arg, eq) == ~with_arg /\ eq # 0

parse_long_opt(long_opt_arg, next_orig_arg, ds, it) ==
    IF Len(long_opt_arg) = 0
    THEN ParseResult("ERROR", it, NULL,
                     try_append_string_printf(NULL, MsgInvalidArgument))
    ELSE IF eq_pos(long_opt_arg) # 0 /\ eq_pos(long_opt_arg) - 1 > max_len
    THEN ParseResult("ERROR", it, NULL,
             try_append_string_printf(NULL, MsgInvalidLong(long_opt_arg)))
    ELSE
      LET eq == eq_pos(long_opt_arg)
          name == long_opt_name(long_opt_arg)
          descr == find_descr(ds, NUL, Ptr(name))
      IN  IF descr = 0
          THEN ParseResult("ERROR_UNKNOWN_OPT", it, NULL,
                   try_append_string_printf(NULL, MsgUnknownLong(name)))
          ELSE IF ds[descr].with_arg /\ eq = 0 /\ next_orig_arg = NULL
          THEN ParseResult("ERROR", it, NULL,
                   try_append_string_printf(NULL, MsgMissingLong(name)))
          ELSE IF long_opt_unexpected_arg(ds[descr].with_arg, eq)
          THEN ParseResult("ERROR", it, NULL,
                   try_append_string_printf(NULL, MsgUnexpectedLong(name)))
          ELSE
            LET opt_arg == IF ~ds[descr].with_arg THEN NULL
                           ELSE IF eq # 0
                                THEN Ptr(Suffix(long_opt_arg, eq + 1))
                                ELSE next_orig_arg
                used_next_orig_arg == ds[descr].with_arg /\ eq = 0
            IN  ParseResult("OK", long_opt_advance(it, used_next_orig_arg),
                            Ptr(create_opt_item(descr, opt_arg)), NULL)

parse_orig_arg_opt(orig_arg, next_orig_arg, ds, it) ==
    IF CharAt(orig_arg, 2) = "-"
    THEN parse_long_opt(Suffix(orig_arg, 3), next_orig_arg, ds, it)
    ELSE parse_short_opts(orig_arg, next_orig_arg, ds, it)

----------------------------------------------------------------------------
(* The iterator *)

argpar_iter_create == [i |-> 0, non_opt_index |-> 0, short_opt_ch |-> 0]

\* Mutant: after the last original argument an empty one is found
next_orig_arg_past(av, it) ==
    IF it.i + 2 <= Len(av) THEN Ptr(av[it.i + 2]) ELSE Ptr(<<>>)

\* The original argument after the current one, NULL when there is none
next_orig_arg_of(av, it) ==
    IF unsigned_lt_pred(it.i, Len(av)) THEN Ptr(av[it.i + 2]) ELSE NULL

\* Mutant: `-` and `--` are non-option arguments too
is_non_opt_arg_dashes(orig_arg) ==
    \/ CharAt(orig_arg, 1) # "-"
    \/ orig_arg = <<"-">>
    \/ orig_arg = <<"-", "-">>

\* Whether the original argument is a non-option argument
is_non_opt_arg(orig_arg) == CharAt(orig_arg, 1) # "-"

\* Mutant: the end is found one original argument too early
at_end_early(av, it) == it.i >= Len(av) - 1

\* Whether all the original arguments are parsed
at_end(av, it) == it.i = Len(av)

\* Mutant: a non-option argument is left at its second item only
non_opt_advance_second(it) ==
    [it EXCEPT !.non_opt_index = it.non_opt_index + 1,
               !.i = it.i + (it.non_opt_index % 2)]

\* Mutant: the counter of non-option arguments is not incremented
non_opt_advance_keep(it) == [it EXCEPT !.i = it.i + 1]

\* Iterator once a non-option item is produced
non_opt_advance(it) ==
    [it EXCEPT !.non_opt_index = it.non_opt_index + 1, !.i = it.i + 1]

NextResult(st, it, itm, err) ==
    [status |-> st, iter |-> it, item |-> itm, error |-> err]

argpar_iter_parse_next(av, ds, it) ==
    IF at_end(av, it)
    THEN NextResult("END", it, NULL, NULL)
    ELSE
      LET orig_arg == av[it.i + 1]
          next_orig_arg == next_orig_arg_of(av, it)
      IN  IF is_non_opt_arg(orig_arg)
          THEN NextResult("OK", non_opt_advance(it),
                   Ptr(create_non_opt_item(orig_arg, it.i, it.non_opt_index)),
                   NULL)
          ELSE
            LET r == parse_orig_arg_opt(orig_arg, next_orig_arg, ds, it)
            IN  IF r.ret = "OK"
                THEN NextResult("OK", r.iter, r.item, r.error)
                ELSE NextResult(r.ret, r.iter, r.item,
                         try_prepend_while_parsing_arg_to_error(
                             r.error, it.i, orig_arg))

argpar_iter_get_ingested_orig_args(it) == it.i

----------------------------------------------------------------------------
(* The item array and argpar_parse() *)

initial_size == 10

create_item_array == [items |-> <<>>, n_items |-> 0, n_alloc |-> initial_size]

\* Mutant: the array grows one item before it is full
push_item_grow_early(arr, itm) ==
    [items |-> Append(arr.items, itm),
     n_items |-> arr.n_items + 1,
     n_alloc |-> IF arr.n_items + 1 = arr.n_alloc THEN arr.n_alloc * 2
                 ELSE arr.n_alloc]

\* Mutant: the item is stored before the others
push_item_front(arr, itm) ==
    [items |-> <<itm>> \o arr.items,
     n_items |-> arr.n_items + 1,
     n_alloc |-> IF arr.n_items = arr.n_alloc THEN arr.n_alloc * 2
                 ELSE arr.n_alloc]

push_item(arr, itm) ==
    [items |-> Append(arr.items, itm),
     n_items |-> arr.n_items + 1,
     n_alloc |-> IF arr.n_items = arr.n_alloc THEN arr.n_alloc * 2
                 ELSE arr.n_alloc]

ParseRet(items, ingested_orig_args, err) ==
    [items |-> items, ingested_orig_args |-> ingested_orig_args,
     error |-> err]

\* Mutant: a generic error ends the parsing as an unknown option does when
\* unknown options are tolerated
parse_ret_on_error_soft(ret, r) ==
    ParseRet(ret.items, argpar_iter_get_ingested_orig_args(r.iter), NULL)

\* parse_ret when the next call returned the generic error status
parse_ret_on_error(ret, r) ==
    ParseRet(NULL, ret.ingested_orig_args, r.error)

\* Mutant: the number of ingested original arguments is not stored
parse_ret_on_end_no_count(ret, r) ==
    ParseRet(ret.items, ret.ingested_orig_args, r.error)

\* parse_ret when the next call returned the end status
parse_ret_on_end(ret, r) ==
    ParseRet(ret.items, argpar_iter_get_ingested_orig_args(r.iter), r.error)

\* Mutant: the original argument of the unknown option counts as ingested
parse_ret_on_unknown_opt_past(ret, r, fail) ==
    IF fail
    THEN ParseRet(NULL, argpar_iter_get_ingested_orig_args(r.iter), r.error)
    ELSE ParseRet(ret.items, argpar_iter_get_ingested_orig_args(r.iter) + 1,
                  NULL)

\* Mutant: fail_on_unknown_opt is ignored
parse_ret_on_unknown_opt_soft(ret, r, fail) ==
    ParseRet(ret.items, argpar_iter_get_ingested_orig_args(r.iter), NULL)

\* parse_ret when the next call returned the unknown option status
parse_ret_on_unknown_opt(ret, r, fail) ==
    IF fail
    THEN ParseRet(NULL, argpar_iter_get_ingested_orig_args(r.iter), r.error)
    ELSE ParseRet(ret.items, argpar_iter_get_ingested_orig_args(r.iter), NULL)

\* parse_ret after the loop iteration whose next call returned r
argpar_parse_iteration(ret, r, fail) ==
    CASE r.status = "ERROR" -> parse_ret_on_error(ret, r)
      [] r.status = "END" -> parse_ret_on_end(ret, r)
      [] r.status = "ERROR_UNKNOWN_OPT" ->
           parse_ret_on_unknown_opt(ret, r, fail)
      [] r.status = "OK" ->
           ParseRet(Ptr(push_item(Deref(ret.items), Deref(r.item))),
                    ret.ingested_orig_args, r.error)

----------------------------------------------------------------------------
(* History of the items returned *)

\* An item with the original argument and cluster character it comes from,
\* and the index of the next original argument once it was returned
Provenance(av, r, it) ==
    [item |-> Deref(r.item), arg_index |-> it.i,
     ch |-> IF is_non_opt_arg(av[it.i + 1]) \/ CharAt(av[it.i + 1], 2) = "-"
            THEN 0 ELSE short_opt_cursor(it),
     i_after |-> r.iter.i]

Record(hist, av, r, it) ==
    IF r.status = "OK" THEN Append(hist, Provenance(av, r, it)) ELSE hist

----------------------------------------------------------------------------
(* argpar_parse() *)

\* The loop of argpar_parse() from its iteration on iterator it: the
\* parse_ret it leaves, with the last next call, its iterator and the history
RECURSIVE argpar_parse_loop(_, _, _, _, _, _)
argpar_parse_loop(av, ds, fail, it, ret, hist) ==
    LET r == argpar_iter_parse_next(av, ds, it)
        ret1 == argpar_parse_iteration(ret, r, fail)
        hist1 == Record(hist, av, r, it)
    IN  IF r.status = "OK"
        THEN argpar_parse_loop(av, ds, fail, r.iter, ret1, hist1)
        ELSE [parse_ret |-> ret1, last |-> r, pre |-> it, produced |-> hist1]

argpar_parse(av, ds, fail) ==
    argpar_parse_loop(av, ds, fail, argpar_iter_create,
                      ParseRet(Ptr(create_item_array), 0, NULL), <<>>)

----------------------------------------------------------------------------
(* Specification *)

Init ==
    /\ \/ argv = <<>>
       \/ \E n \in 0..(MaxArgvBytes - 1) :
            \E block \in ArgBlocks(n) : argv = ArgvOfBlock(block)
    /\ descrs \in DescrTables
    /\ pc = "start"
    /\ iter = argpar_iter_create
    /\ status = "NONE"
    /\ item = NULL
    /\ error = NULL
    /\ fail_on_unknown_opt = FALSE
    /\ parse_ret = ParseRet(NULL, 0, NULL)
    /\ pre = argpar_iter_create
    /\ produced = <<>>
    /\ oom = "NONE"
    /\ iters = <<argpar_iter_create, argpar_iter_create>>
    /\ logs = << <<>>, <<>> >>

\* The user calls argpar_iter_parse_next() on its iterator
IterParseNext ==
    /\ pc \in {"start", "iter"}
    /\ LET r == argpar_iter_parse_next(argv, descrs, iter)
       IN  /\ iter' = r.iter
           /\ status' = r.status
           /\ item' = r.item
           /\ error' = r.error
           /\ pre' = iter
           /\ produced' = Record(produced, argv, r, iter)
    /\ pc' = "iter"
    /\ oom' = "NONE"
    /\ UNCHANGED <<argv, descrs, fail_on_unknown_opt, parse_ret, iters, logs>>

\* The user calls argpar_parse() instead; iter, status, item and error are
\* those of the last next call of its loop
ArgparParse ==
    /\ pc = "start"
    /\ \E fail \in BOOLEAN :
         LET p == argpar_parse(argv, descrs, fail)
         IN  /\ fail_on_unknown_opt' = fail
             /\ parse_ret' = p.parse_ret
             /\ iter' = p.last.iter
             /\ status' = p.last.status
             /\ item' = p.last.item
             /\ error' = p.last.error
             /\ pre' = p.pre
             /\ produced' = p.produced
    /\ pc' = "parse_end"
    /\ oom' = "NONE"
    /\ UNCHANGED <<argv, descrs, iters, logs>>

Next == IterParseNext \/ ArgparParse

Spec == Init /\ [][Next]_vars

----------------------------------------------------------------------------
(* Allocation failures *)

\* What a call in which an allocation fails ends in: it returns ("NONE"), an
\* ARGPAR_ASSERT() fails ("ASSERT"), or, when the assertions are compiled
\* out, the NULL string given to `%s' is dereferenced ("SEGV")
Outcome(fault, st, it, itm, err) ==
    [fault |-> fault, status |-> st, iter |-> it, item |-> itm,
     error |-> err]

\* The iterator when parse_orig_arg_opt() creates its item: parse_short_opts()
\* has set the cursor
iter_at_create_opt_item(orig_arg, it) ==
    IF CharAt(orig_arg, 2) = "-" THEN it
    ELSE [it EXCEPT !.short_opt_ch = short_opt_cursor(it)]

\* try_prepend_while_parsing_arg_to_error() when *error is NULL: the
\* assertion fails; without assertions `%s' is given NULL, which is printed
\* as "(null)" or dereferenced
try_prepend_to_null_error(it, orig_arg) ==
    { Outcome("ASSERT", "NONE", it, NULL, NULL),
      Outcome("NONE", "ERROR", it, NULL,
              try_prepend_while_parsing_arg_to_error(
                  Ptr(<<"(null)">>), it.i, orig_arg)),
      Outcome("SEGV", "NONE", it, NULL, NULL) }

\* The outcomes of argpar_iter_parse_next() when it would return an item and
\* create_non_opt_item() or create_opt_item() returns NULL (the allocation
\* of the item or the copy of its argument failed)
argpar_iter_parse_next_oom(av, ds, it) ==
    LET orig_arg == av[it.i + 1]
    IN  IF is_non_opt_arg(orig_arg)
        THEN {Outcome("NONE", "ERROR", it, NULL, NULL)}
        ELSE try_prepend_to_null_error(
                 iter_at_create_opt_item(orig_arg, it), orig_arg)

\* Whether push_item() has to grow the array
push_item_grows(arr) == arr.n_items = arr.n_alloc

ParseOutcome(fault, ret, last, it, hist, site) ==
    [fault |-> fault, parse_ret |-> ret, last |-> last, pre |-> it,
     produced |-> hist, oom |-> site]

\* The error label of argpar_parse(): ARGPAR_ASSERT(parse_ret.error), then
\* items is destroyed; <<fault, parse_ret>>
error_label(ret, err) ==
    IF err = NULL
    THEN { <<"ASSERT", ret>>,
           <<"NONE", ParseRet(NULL, ret.ingested_orig_args, NULL)>> }
    ELSE { <<"NONE", ParseRet(NULL, ret.ingested_orig_args, err)>> }

\* The outcomes of the loop of argpar_parse() from its iteration on iterator
\* it when one allocation of this iteration or of a later one fails
RECURSIVE argpar_parse_loop_oom(_, _, _, _, _, _)
argpar_parse_loop_oom(av, ds, fail, it, ret, hist) ==
    LET r == argpar_iter_parse_next(av, ds, it)
    IN  IF r.status # "OK" THEN {}
        ELSE
          LET hist1 == Record(hist, av, r, it)
              create_fails ==
                  UNION { IF o.fault # "NONE"
                          THEN {ParseOutcome(o.fault, ret, o, it, hist, "ITEM")}
                          ELSE {ParseOutcome(e[1], e[2], o, it, hist, "ITEM") :
                                   e \in error_label(ret, o.error)} :
                          o \in argpar_iter_parse_next_oom(av, ds, it) }
              push_fails ==
                  IF push_item_grows(Deref(ret.items))
                  THEN {ParseOutcome(e[1], e[2], r, it, hist1, "ARRAY") :
                           e \in error_label(ret, r.error)}
                  ELSE {}
          IN  create_fails \cup push_fails
              \cup argpar_parse_loop_oom(av, ds, fail, r.iter,
                       argpar_parse_iteration(ret, r, fail), hist1)

argpar_parse_oom(av, ds, fail) ==
    argpar_parse_loop_oom(av, ds, fail, argpar_iter_create,
                          ParseRet(Ptr(create_item_array), 0, NULL), <<>>)

\* Position of the program after a call that ended with the given fault
pc_after(fault, returned) ==
    CASE fault = "NONE" -> returned
      [] fault = "ASSERT" -> "assert_failed"
      [] fault = "SEGV" -> "crashed"

\* A group of n short options `a'
GroupOfA(n) == <<"-">> \o [k \in 1..n |-> "a"]

InitOOM ==
    /\ \/ argv = <<>>
       \/ \E n \in 0..(MaxOOMBytes - 1) :
            \E block \in ArgBlocks(n) : argv = ArgvOfBlock(block)
       \/ \E n \in 1..MaxGroupLen : argv = <<GroupOfA(n)>>
    /\ descrs \in DescrTables
    /\ pc = "start"
    /\ iter = argpar_iter_create
    /\ status = "NONE"
    /\ item = NULL
    /\ error = NULL
    /\ fail_on_unknown_opt = FALSE
    /\ parse_ret = ParseRet(NULL, 0, NULL)
    /\ pre = argpar_iter_create
    /\ produced = <<>>
    /\ oom = "NONE"
    /\ iters = <<argpar_iter_create, argpar_iter_create>>
    /\ logs = << <<>>, <<>> >>

\* The user calls argpar_iter_parse_next() and the creation of the item fails
IterParseNextOOM ==
    /\ pc \in {"start", "iter"}
    /\ argpar_iter_parse_next(argv, descrs, iter).status = "OK"
    /\ \E o \in argpar_iter_parse_next_oom(argv, descrs, iter) :
         /\ iter' = o.iter
         /\ status' = o.status
         /\ item' = o.item
         /\ error' = o.error
         /\ pc' = pc_after(o.fault, "iter")
    /\ pre' = iter
    /\ oom' = "ITEM"
    /\ UNCHANGED <<argv, descrs, fail_on_unknown_opt, parse_ret, produced,
                   iters, logs>>

\* The user calls argpar_parse() and one allocation of its loop fails
ArgparParseOOM ==
    /\ pc = "start"
    /\ \E fail \in BOOLEAN :
         \E p \in argpar_parse_oom(argv, descrs, fail) :
             /\ fail_on_unknown_opt' = fail
             /\ parse_ret' = p.parse_ret
             /\ iter' = p.last.iter
             /\ status' = p.last.status
             /\ item' = p.last.item
             /\ error' = p.last.error
             /\ pre' = p.pre
             /\ produced' = p.produced
             /\ oom' = p.oom
             /\ pc' = pc_after(p.fault, "parse_end")
    /\ UNCHANGED <<argv, descrs, iters, logs>>

NextOOM == Next \/ IterParseNextOOM \/ ArgparParseOOM

SpecOOM == InitOOM /\ [][NextOOM]_vars

----------------------------------------------------------------------------
(* The loop of argpar_parse(), one iteration at a time *)

\* The vectors of SpecLoop: a group of short options `a', alone, followed by
\* a non-option argument, or ended by a character that is no option
LoopVectors ==
    {<<>>}
    \cup {<<GroupOfA(n)>> : n \in 1..MaxLoopLen}
    \cup {<<GroupOfA(n), <<"b">> >> : n \in 1..MaxLoopLen}
    \cup {<<GroupOfA(n) \o <<"=">> >> : n \in 1..MaxLoopLen}

InitLoop ==
    /\ argv \in LoopVectors
    /\ descrs \in DescrTables
    /\ pc = "start"
    /\ iter = argpar_iter_create
    /\ status = "NONE"
    /\ item = NULL
    /\ error = NULL
    /\ fail_on_unknown_opt = FALSE
    /\ parse_ret = ParseRet(NULL, 0, NULL)
    /\ pre = argpar_iter_create
    /\ produced = <<>>
    /\ oom = "NONE"
    /\ iters = <<argpar_iter_create, argpar_iter_create>>
    /\ logs = << <<>>, <<>> >>

\* argpar_parse() is called: it creates its item array and its iterator
ParseStart ==
    /\ pc = "start"
    /\ fail_on_unknown_opt' \in BOOLEAN
    /\ parse_ret' = ParseRet(Ptr(create_item_array), 0, NULL)
    /\ iter' = argpar_iter_create
    /\ pc' = "loop"
    /\ UNCHANGED <<argv, descrs, status, item, error, pre, produced, oom,
                   iters, logs>>

\* One iteration of the loop of argpar_parse(): a next call, then the item
\* is pushed or the loop is left
ParseIteration ==
    /\ pc = "loop"
    /\ LET r == argpar_iter_parse_next(argv, descrs, iter)
       IN  /\ parse_ret' = argpar_parse_iteration(parse_ret, r,
                                                  fail_on_unknown_opt)
           /\ iter' = r.iter
           /\ status' = r.status
           /\ item' = r.item
           /\ error' = r.error
           /\ pre' = iter
           /\ produced' = Record(produced, argv, r, iter)
           /\ pc' = IF r.status = "OK" THEN "loop" ELSE "parse_end"
    /\ UNCHANGED <<argv, descrs, fail_on_unknown_opt, oom, iters, logs>>

NextLoop == ParseStart \/ ParseIteration

SpecLoop == InitLoop /\ [][NextLoop]_vars

----------------------------------------------------------------------------
(* Two iterators on the same arguments and descriptors *)

\* What a next call gives its caller: the status, *item, *error and the
\* count argpar_iter_get_ingested_orig_args() returns after it
Returned(r) ==
    [status |-> r.status, item |-> r.item, error |-> r.error,
     ingested |-> argpar_iter_get_ingested_orig_args(r.iter)]

\* Mutant: the position of the parsing is kept in one place for all the
\* iterators
store_iter_shared(its, k, it) == [j \in DOMAIN its |-> it]

\* A next call works on the structure its iter parameter points to
store_iter(its, k, it) == [its EXCEPT ![k] = it]

InitTwo ==
    /\ \/ argv = <<>>
       \/ \E n \in 0..(MaxPairBytes - 1) :
            \E block \in ArgBlocks(n) : argv = ArgvOfBlock(block)
    /\ descrs \in DescrTables
    /\ pc = "start"
    /\ iter = argpar_iter_create
    /\ status = "NONE"
    /\ item = NULL
    /\ error = NULL
    /\ fail_on_unknown_opt = FALSE
    /\ parse_ret = ParseRet(NULL, 0, NULL)
    /\ pre = argpar_iter_create
    /\ produced = <<>>
    /\ oom = "NONE"
    /\ iters = <<argpar_iter_create, argpar_iter_create>>
    /\ logs = << <<>>, <<>> >>

\* The user calls argpar_iter_parse_next() on iterator k
IterParseNextOf(k) ==
    /\ Len(logs[k]) < MaxCalls
    /\ LET r == argpar_iter_parse_next(argv, descrs, iters[k])
       IN  /\ iters' = store_iter(iters, k, r.iter)
           /\ logs' = [logs EXCEPT ![k] = Append(@, Returned(r))]
    /\ UNCHANGED <<argv, descrs, pc, iter, status, item, error,
                   fail_on_unknown_opt, parse_ret, pre, produced, oom>>

NextTwo == \E k \in 1..2 : IterParseNextOf(k)

SpecTwo == InitTwo /\ [][NextTwo]_vars

----------------------------------------------------------------------------
(* Tables in which a long name is not looked up to its descriptor *)

InitRound ==
    /\ \/ argv = <<>>
       \/ \E n \in 0..(MaxRoundBytes - 1) :
            \E block \in ArgBlocks(n) : argv = ArgvOfBlock(block)
    /\ descrs \in DescrTables \cup {DescrsSameLong}
    /\ pc = "start"
    /\ iter = argpar_iter_create
    /\ status = "NONE"
    /\ item = NULL
    /\ error = NULL
    /\ fail_on_unknown_opt = FALSE
    /\ parse_ret = ParseRet(NULL, 0, NULL)
    /\ pre = argpar_iter_create
    /\ produced = <<>>
    /\ oom = "NONE"
    /\ iters = <<argpar_iter_create, argpar_iter_create>>
    /\ logs = << <<>>, <<>> >>

SpecRound == InitRound /\ [][Next]_vars

----------------------------------------------------------------------------
(* Long names and the examples of the documentation and of the tests *)

\* Length of the longest long option name of specification SpecNames: more
\* than the size of the name buffer of parse_long_opt()
MaxNameLen == 129

\* A name made of n letters `a'
NameOfA(n) == [k \in 1..n |-> "a"]

NameLens == (max_len - 1)..MaxNameLen

Fraction == <<"f", "r", "a", "c", "t", "i", "o", "n">>

DescrsFraction == << Descr(1, NUL, Ptr(Fraction), TRUE) >>

\* Names given on the command line for `fraction'
FractionSpellings ==
    { Fraction,
      <<"f", "r", "a", "c">>,
      <<"F", "r", "a", "c", "t", "i", "o", "n">>,
      <<"f", "r", "a", "c", "t", "i", "o", "n", "s">> }

DescrsDEF ==
    << Descr(1, "d", NULL, FALSE),
       Descr(2, "e", NULL, FALSE),
       Descr(3, "f", NULL, TRUE) >>

DefMeow == <<"-", "d", "e", "f", "m", "e", "o", "w">>

\* The vectors that give the long option `name': with `=23', with 23 as the
\* next original argument, alone
LongOptVectors(name) ==
    { << <<"-", "-">> \o name \o <<"=", "2", "3">> >>,
      << <<"-", "-">> \o name, <<"2", "3">> >>,
      << <<"-", "-">> \o name >> }

Input(av, ds) == [argv |-> av, descrs |-> ds]

NamedInputs ==
    { Input(av, << Descr(1, NUL, Ptr(NameOfA(n)), TRUE) >>) :
          av \in UNION {LongOptVectors(NameOfA(m)) : m \in NameLens},
          n \in NameLens }
    \cup { Input(av, DescrsFraction) :
               av \in UNION {LongOptVectors(w) : w \in FractionSpellings} }
    \cup { Input(<<DefMeow>>, DescrsDEF) }

InitNames ==
    /\ \E x \in NamedInputs : argv = x.argv /\ descrs = x.descrs
    /\ pc = "start"
    /\ iter = argpar_iter_create
    /\ status = "NONE"
    /\ item = NULL
    /\ error = NULL
    /\ fail_on_unknown_opt = FALSE
    /\ parse_ret = ParseRet(NULL, 0, NULL)
    /\ pre = argpar_iter_create
    /\ produced = <<>>
    /\ oom = "NONE"
    /\ iters = <<argpar_iter_create, argpar_iter_create>>
    /\ logs = << <<>>, <<>> >>

SpecNames == InitNames /\ [][Next]_vars

----------------------------------------------------------------------------
(* Properties *)

\* A next call has returned
Called == status # "NONE"

\* The last next call found an original argument to parse
OnArg == Called /\ pre.i < Len(argv)

\* The original argument the last next call worked on
CurArg == argv[pre.i + 1]

Dash == <<"-">>

DashDash == <<"-", "-">>

IsDashArg(a) == a = Dash \/ a = DashDash

\* The decimal numeral of a number below 10
Numeral(n) == Digits[n + 1]

NonOptEntries == {k \in 1..Len(produced) : produced[k].item.type = "NON_OPT"}

\* Every original argument below index n was consumed for a returned item
CoveredBelow(n) ==
    \A k \in 0..(n - 1) :
        \E e \in 1..Len(produced) :
            produced[e].arg_index <= k /\ k < produced[e].i_after

\* C1: a next call that starts on an original argument that is exactly `-`
\* or `--` returns OK with a non-option item for that argument (its text,
\* its position as orig_index, the number of earlier non-option items as
\* non_opt_index), advances next_arg_index by 1 and reports no error.
C1_DashIsNonOption ==
    (OnArg /\ IsDashArg(CurArg)) =>
        /\ status = "OK"
        /\ item = Ptr([type |-> "NON_OPT", arg |-> CurArg,
                       orig_index |-> pre.i,
                       non_opt_index |-> Cardinality(NonOptEntries) - 1])
        /\ iter.i = pre.i + 1
        /\ error = NULL

C3_OrigIndex ==
    /\ \A k \in NonOptEntries :
          /\ produced[k].item.orig_index = produced[k].arg_index
          /\ produced[k].item.orig_index < Len(argv)
          /\ produced[k].item.arg = argv[produced[k].item.orig_index + 1]
    /\ \A j, k \in NonOptEntries :
          j < k => produced[j].item.orig_index < produced[k].item.orig_index

C3_Witness ==
    /\ Len(produced) = 3
    /\ produced[1].item.type = "NON_OPT"
    /\ produced[2].item.type = "OPT"
    /\ produced[3].item.type = "NON_OPT"
    /\ produced[3].item.orig_index = 2
    /\ produced[1].item.arg # produced[3].item.arg

\* C4: the non_opt_index of each non-option item is the number of non-option
\* items returned before it; option items and errors leave the counter of
\* the iterator unchanged.
C4_NonOptIndex ==
    /\ \A k \in NonOptEntries :
          produced[k].item.non_opt_index =
              Cardinality({j \in NonOptEntries : j < k})
    /\ iter.non_opt_index = Cardinality(NonOptEntries)
    /\ (Called /\ (status # "OK" \/ Deref(item).type = "OPT")) =>
           iter.non_opt_index = pre.non_opt_index

C4_Witness ==
    /\ Len(produced) = 2
    /\ produced[1].item.type = "OPT"
    /\ produced[2].item.type = "NON_OPT"
    /\ produced[2].item.non_opt_index = 0
    /\ produced[2].item.orig_index = 1
    /\ status = "ERROR"
    /\ iter.non_opt_index = 1

IsShortArg(a) == Len(a) >= 2 /\ a[1] = "-" /\ a[2] # "-"

IsLongArg(a) == Len(a) >= 3 /\ a[1] = "-" /\ a[2] = "-"

\* The last next call worked on a short option group, at character PreCursor
ShortCall == OnArg /\ IsShortArg(CurArg)

PreCursor == IF pre.short_opt_ch = 0 THEN 2 ELSE pre.short_opt_ch

\* The last next call worked on a long option, `--` followed by Body
LongCall == OnArg /\ IsLongArg(CurArg)

Body == SubSeq(CurArg, 3, Len(CurArg))

EqPositions == {j \in 1..Len(Body) : Body[j] = "="}

Min(S) == CHOOSE x \in S : \A y \in S : x <= y

ShortDescrs(c) == {d \in 1..Len(descrs) : descrs[d].short_name = c}

LongDescrs(name) == {d \in 1..Len(descrs) : descrs[d].long_name = Ptr(name)}

\* The last next call returned exactly one more item, the last of the history
ReturnedOne(itm) ==
    /\ status = "OK" /\ error = NULL /\ item = Ptr(itm)
    /\ produced # <<>>
    /\ produced[Len(produced)].item = itm
    /\ produced[Len(produced)].arg_index = pre.i

\* The original argument and character an entry of the history names are
\* those its item was made from
Genuine(e) ==
    LET a == argv[e.arg_index + 1]
    IN  CASE e.item.type = "NON_OPT" -> e.ch = 0 /\ e.item.arg = a
          [] e.item.type = "OPT" /\ e.ch = 0 ->
               /\ IsLongArg(a)
               /\ \E n \in 1..(Len(a) - 2) :
                     descrs[e.item.descr].long_name = Ptr(SubSeq(a, 3, n + 2))
          [] OTHER ->
               /\ IsShortArg(a) /\ e.ch >= 2 /\ e.ch <= Len(a)
               /\ descrs[e.item.descr].short_name = a[e.ch]

\* C5: items are returned in the order of the original arguments: of two
\* items returned by one run, the earlier comes from an original argument at
\* a strictly lower index, or from an earlier character of the same short
\* option group; argpar_parse() stores the items in that order.
C5_ItemOrder ==
    /\ \A k \in 1..Len(produced) : Genuine(produced[k])
    /\ \A j, k \in 1..Len(produced) :
          j < k =>
            \/ produced[j].arg_index < produced[k].arg_index
            \/ /\ produced[j].arg_index = produced[k].arg_index
               /\ produced[j].ch >= 2
               /\ produced[j].ch < produced[k].ch
    /\ (pc = "parse_end" /\ parse_ret.items # NULL) =>
          Deref(parse_ret.items).items =
              [k \in 1..Len(produced) |-> produced[k].item]

C5_Witness ==
    /\ pc = "parse_end" /\ parse_ret.items # NULL
    /\ Len(produced) = 3
    /\ produced[1].arg_index = 0 /\ produced[1].ch = 2
    /\ produced[2].arg_index = 0 /\ produced[2].ch = 3
    /\ produced[3].arg_index = 1
    /\ produced[3].item.type = "NON_OPT"

\* C6: a next call returns End exactly when next_arg_index equals the
\* argument count when it is made (also right after creation over an empty
\* vector); it then sets no item and no error and leaves the iterator
\* unchanged, so that every later call returns End again.
C6_DoneIsTerminal ==
    Called =>
        /\ (status = "END") <=> (pre.i = Len(argv))
        /\ status = "END" => (item = NULL /\ error = NULL /\ iter = pre)

C6_Witness ==
    /\ pc = "iter" /\ status = "END"
    /\ Len(argv) = 2 /\ pre.i = 2 /\ iter.i = 2
    /\ Len(produced) = 1

\* C7: in a short option group, a character whose descriptor takes no
\* argument yields one option item without argument; when characters remain
\* the cursor moves to the next character and next_arg_index is unchanged,
\* otherwise the cursor is cleared and next_arg_index advances by 1; a call
\* that resumes in a group interprets the character under the cursor.
C7_ShortNoArg ==
    /\ (ShortCall /\ ShortDescrs(CurArg[PreCursor]) # {}
          /\ ~descrs[Min(ShortDescrs(CurArg[PreCursor]))].with_arg) =>
         /\ ReturnedOne([type |-> "OPT",
                         descr |-> Min(ShortDescrs(CurArg[PreCursor])),
                         arg |-> NULL])
         /\ iter.non_opt_index = pre.non_opt_index
         /\ IF PreCursor < Len(CurArg)
            THEN iter.i = pre.i /\ iter.short_opt_ch = PreCursor + 1
            ELSE iter.i = pre.i + 1 /\ iter.short_opt_ch = 0
    /\ (Called /\ pre.short_opt_ch # 0) =>
         /\ ShortCall /\ pre.short_opt_ch <= Len(CurArg)
         /\ status = "OK" =>
               descrs[Deref(item).descr].short_name = CurArg[pre.short_opt_ch]
         /\ status = "ERROR_UNKNOWN_OPT" =>
               ShortDescrs(CurArg[pre.short_opt_ch]) = {}

C7_Witness ==
    /\ ShortCall /\ Len(CurArg) = 4
    /\ pre.short_opt_ch = 3 /\ iter.short_opt_ch = 4
    /\ status = "OK" /\ Deref(item).arg = NULL
    /\ iter.i = pre.i

\* C8: a short option that takes an argument and is followed by at least one
\* character in its original argument has exactly the rest of that original
\* argument as its argument; one option item is returned, the cursor is
\* cleared and next_arg_index advances by 1.
C8_ShortGluedArg ==
    (ShortCall /\ ShortDescrs(CurArg[PreCursor]) # {}
       /\ descrs[Min(ShortDescrs(CurArg[PreCursor]))].with_arg
       /\ PreCursor < Len(CurArg)) =>
        /\ ReturnedOne([type |-> "OPT",
                        descr |-> Min(ShortDescrs(CurArg[PreCursor])),
                        arg |-> Ptr(SubSeq(CurArg, PreCursor + 1,
                                           Len(CurArg)))])
        /\ iter.short_opt_ch = 0
        /\ iter.i = pre.i + 1

C8_Witness ==
    /\ ShortCall /\ CurArg = <<"-", "a", "b", "-", "a">>
    /\ pre.short_opt_ch = 3
    /\ status = "OK" /\ Deref(item).arg = Ptr(<<"-", "a">>)
    /\ iter.i = pre.i + 1 /\ iter.short_opt_ch = 0

\* The last next call met an option that takes an argument and has none in
\* its own original argument, d being its descriptor
SpaceForm(d) ==
    \/ /\ LongCall /\ EqPositions = {}
       /\ LongDescrs(Body) # {} /\ d = Min(LongDescrs(Body))
       /\ descrs[d].with_arg
    \/ /\ ShortCall /\ PreCursor = Len(CurArg)
       /\ ShortDescrs(CurArg[PreCursor]) # {}
       /\ d = Min(ShortDescrs(CurArg[PreCursor]))
       /\ descrs[d].with_arg

\* C9: an option that takes an argument and has none in its own original
\* argument takes the next original argument, when there is one, verbatim
\* as its argument; one option item is returned and next_arg_index advances
\* by 2; the original argument taken never yields an item or an error.
C9_SpaceFormArg ==
    /\ \A d \in 1..Len(descrs) :
         (SpaceForm(d) /\ pre.i + 1 < Len(argv)) =>
            /\ ReturnedOne([type |-> "OPT", descr |-> d,
                            arg |-> Ptr(argv[pre.i + 2])])
            /\ iter.i = pre.i + 2
            /\ iter.short_opt_ch = 0
    /\ \A e \in 1..Len(produced) :
         produced[e].i_after = produced[e].arg_index + 2 =>
            /\ \A f \in 1..Len(produced) :
                  produced[f].arg_index # produced[e].arg_index + 1
            /\ ~(e < Len(produced) /\ pre.i = produced[e].arg_index + 1)
            /\ ~(status # "OK" /\ pre.i = produced[e].arg_index + 1)

C9_Witness ==
    /\ LongCall /\ CurArg = <<"-", "-", "b">>
    /\ status = "OK" /\ Deref(item).arg = Ptr(<<"-", "a">>)
    /\ pre.i = 0 /\ iter.i = 2

\* C10: in a long option `--body` only the first `=` separates: the name is
\* the text before it and the argument of an option that takes one is all
\* the text after it, further `=` included, possibly empty (an item with a
\* present, empty argument); next_arg_index advances by 1.
C10_LongEqualsArg ==
    (LongCall /\ EqPositions # {}
       /\ LongDescrs(SubSeq(Body, 1, Min(EqPositions) - 1)) # {}
       /\ descrs[Min(LongDescrs(SubSeq(Body, 1,
                      Min(EqPositions) - 1)))].with_arg) =>
        /\ ReturnedOne([type |-> "OPT",
               descr |-> Min(LongDescrs(SubSeq(Body, 1, Min(EqPositions) - 1))),
               arg |-> Ptr(SubSeq(Body, Min(EqPositions) + 1, Len(Body)))])
        /\ Deref(item).arg # NULL
        /\ iter.i = pre.i + 1

C10_Witness ==
    /\ LongCall /\ CurArg = <<"-", "-", "b", "=", "=">>
    /\ status = "OK" /\ Deref(item).arg = Ptr(<<"=">>)
    /\ iter.i = pre.i + 1

C10_WitnessEmpty ==
    /\ LongCall /\ CurArg = <<"-", "-", "b", "=">>
    /\ status = "OK" /\ Deref(item).arg = Ptr(<<>>)
    /\ Deref(item).arg # NULL

\* Name of the long option the last next call worked on: the text of Body
\* before its first `=`
LongName ==
    IF EqPositions = {} THEN Body
    ELSE SubSeq(Body, 1, Min(EqPositions) - 1)

\* Start of the message of an error met on the original argument of the
\* last next call, which gives its 1-based position
WhileParsing ==
    <<"While parsing argument #", Numeral(pre.i + 1), " (", BQ>>
    \o CurArg \o <<BQ, "): ">>

\* The characters of the group before the one the last next call worked on
\* have each yielded an item of the history
EarlierOfGroupReturned ==
    \A k \in 2..(PreCursor - 1) :
        \E e \in 1..Len(produced) :
            /\ produced[e].arg_index = pre.i
            /\ produced[e].ch = k
            /\ produced[e].item.type = "OPT"
            /\ descrs[produced[e].item.descr].short_name = CurArg[k]

\* C11: a next call that meets an option no descriptor describes returns
\* the unknown option status and no item; its message gives the 1-based
\* position of the original argument that contains the option and names it:
\* `--` and the text before the first `=` for a long option, `-` and the
\* character for a short one; the iterator does not advance, and the
\* arguments and the characters of the group before it have yielded items.
C11_UnknownOption ==
    /\ (LongCall /\ LongDescrs(LongName) = {}) =>
          /\ status = "ERROR_UNKNOWN_OPT"
          /\ error = Ptr(WhileParsing \o <<"Unknown option ", BQ, "--">>
                         \o LongName \o <<BQ>>)
    /\ (ShortCall /\ ShortDescrs(CurArg[PreCursor]) = {}) =>
          /\ status = "ERROR_UNKNOWN_OPT"
          /\ error = Ptr(WhileParsing
                         \o <<"Unknown option ", BQ, "-", CurArg[PreCursor], BQ>>)
    /\ status = "ERROR_UNKNOWN_OPT" =>
          /\ \/ LongCall /\ LongDescrs(LongName) = {}
             \/ ShortCall /\ ShortDescrs(CurArg[PreCursor]) = {}
          /\ item = NULL
          /\ iter.i = pre.i
          /\ CoveredBelow(pre.i)
          /\ ShortCall => EarlierOfGroupReturned

C11_Witness ==
    /\ ShortCall /\ CurArg = <<"-", "a", "=">>
    /\ pre.i = 1 /\ pre.short_opt_ch = 3
    /\ status = "ERROR_UNKNOWN_OPT"
    /\ Len(produced) = 2

C11_WitnessLong ==
    /\ LongCall /\ CurArg = <<"-", "-", "a", "=", "b">>
    /\ status = "ERROR_UNKNOWN_OPT"
    /\ LongName = <<"a">>

C12_WitnessLong ==
    /\ LongCall /\ CurArg = <<"-", "-", "b">>
    /\ pre.i = 1 /\ Len(argv) = 2
    /\ status = "ERROR"

C13_WitnessNoEq ==
    /\ LongCall /\ CurArg = <<"-", "-", "a", "b">>
    /\ pre.i = 1
    /\ status = "OK" /\ Deref(item).arg = NULL
    /\ iter.i = 2

\* argpar_parse() has returned
Parsed == pc = "parse_end"

\* The items of the array argpar_parse() returns are those of the history
ItemsAreProduced ==
    /\ parse_ret.items # NULL
    /\ Deref(parse_ret.items).items =
           [k \in 1..Len(produced) |-> produced[k].item]

\* The kind of an error message: the piece that follows the position
MessageKind(err) == Deref(err)[Len(WhileParsing) + 1]

\* C14: when argpar_parse() without fail_on_unknown_opt meets an unknown
\* option it succeeds: its array holds the items returned before, in order,
\* error is NULL, ingested_orig_args is the index of the original argument
\* that contains the unknown option, and no item comes from that argument
\* or a later one.
C14_TolerantStop ==
    (Parsed /\ ~fail_on_unknown_opt /\ status = "ERROR_UNKNOWN_OPT") =>
        /\ ItemsAreProduced
        /\ parse_ret.error = NULL
        /\ parse_ret.ingested_orig_args = pre.i
        /\ \A e \in 1..Len(produced) : produced[e].arg_index < pre.i

\* C15: when argpar_parse() with fail_on_unknown_opt meets an unknown option
\* it fails: items is NULL, error is the unknown option message of the next
\* call, and ingested_orig_args is the ingested count of the iterator, the
\* index of the original argument that contains the option.
C15_StrictUnknownFails ==
    (Parsed /\ fail_on_unknown_opt /\ status = "ERROR_UNKNOWN_OPT") =>
        /\ parse_ret.items = NULL
        /\ parse_ret.error # NULL
        /\ parse_ret.error = error
        /\ MessageKind(parse_ret.error) = "Unknown option "
        /\ parse_ret.ingested_orig_args =
               argpar_iter_get_ingested_orig_args(iter)
        /\ parse_ret.ingested_orig_args = pre.i

C15_Witness ==
    /\ Parsed /\ fail_on_unknown_opt
    /\ status = "ERROR_UNKNOWN_OPT"
    /\ Len(produced) = 2 /\ pre.i = 2
    /\ parse_ret.items = NULL /\ parse_ret.ingested_orig_args = 2

\* C16: when a next call of argpar_parse() returns the generic error status
\* (missing argument, unexpected argument, invalid argument), argpar_parse()
\* fails whatever fail_on_unknown_opt is: items is NULL and error is the
\* message of that call; it succeeds only on the end of the arguments or,
\* without fail_on_unknown_opt, on an unknown option.
C16_OtherErrorsFail ==
    /\ (Parsed /\ status = "ERROR") =>
          /\ parse_ret.items = NULL
          /\ parse_ret.error # NULL
          /\ parse_ret.error = error
          /\ MessageKind(parse_ret.error) \in
                 {"Missing required argument for option ",
                  "Unexpected argument for option ",
                  "Invalid argument", "Invalid argument "}
    /\ (Parsed /\ parse_ret.items # NULL) =>
          \/ status = "END"
          \/ status = "ERROR_UNKNOWN_OPT" /\ ~fail_on_unknown_opt

C16_Witness ==
    /\ Parsed /\ ~fail_on_unknown_opt
    /\ status = "ERROR"
    /\ MessageKind(error) = "Missing required argument for option "
    /\ produced # <<>>
    /\ parse_ret.items = NULL

C16_WitnessUnexpected ==
    /\ Parsed /\ ~fail_on_unknown_opt
    /\ status = "ERROR"
    /\ MessageKind(error) = "Unexpected argument for option "
    /\ parse_ret.items = NULL

C16_WitnessInvalid ==
    /\ Parsed /\ ~fail_on_unknown_opt
    /\ status = "ERROR"
    /\ MessageKind(error) = "Invalid argument"
    /\ produced # <<>>
    /\ parse_ret.items = NULL

\* C17: whenever argpar_parse() fails, ingested_orig_args of its result is
\* the ingested count of the iterator when the error was met, the number of
\* original arguments consumed before it.
C17_FailureCarriesCount ==
    (Parsed /\ parse_ret.items = NULL) =>
        parse_ret.ingested_orig_args =
            argpar_iter_get_ingested_orig_args(iter)

\* C18: when argpar_parse() with fail_on_unknown_opt succeeds,
\* ingested_orig_args is argc: the end of the arguments was reached.
C18_StrictSuccessIngestsAll ==
    (Parsed /\ fail_on_unknown_opt /\ parse_ret.items # NULL) =>
        /\ parse_ret.ingested_orig_args = Len(argv)
        /\ status = "END"
        /\ parse_ret.error = NULL

C18_Witness ==
    /\ Parsed /\ fail_on_unknown_opt
    /\ parse_ret.items # NULL
    /\ Len(argv) = 3 /\ Len(produced) = 2
    /\ parse_ret.ingested_orig_args = 3

\* C19: after any next calls the ingested count of the iterator is the
\* number of original arguments required to produce the items returned:
\* every returned item comes from an original argument whose index is below
\* the count, and the argument at index count - 1 was consumed for a
\* returned item.
C19_IngestedCount ==
    Called =>
        /\ \A e \in 1..Len(produced) :
              produced[e].arg_index < argpar_iter_get_ingested_orig_args(iter)
        /\ argpar_iter_get_ingested_orig_args(iter) > 0 =>
              \E e \in 1..Len(produced) :
                  /\ produced[e].arg_index
                         <= argpar_iter_get_ingested_orig_args(iter) - 1
                  /\ argpar_iter_get_ingested_orig_args(iter) - 1
                         < produced[e].i_after

\* C20: a failed allocation is reported by a returned value: when the
\* allocation of an item, of the copy of an option argument or of the grown
\* item array fails, no ARGPAR_ASSERT() fails and the program does not
\* crash, argpar_iter_parse_next() returns an error status and no item, and
\* argpar_parse() returns a failed result, items being NULL.
C20_FailuresAreReturned ==
    oom # "NONE" =>
        /\ pc \notin {"assert_failed", "crashed"}
        /\ oom = "ITEM" =>
              status \in {"ERROR", "ERROR_UNKNOWN_OPT"} /\ item = NULL
        /\ Parsed => parse_ret.items = NULL

\* The last next call returned an error status
Failed == status \in {"ERROR", "ERROR_UNKNOWN_OPT"}

\* C21: a next call that returns an error status leaves next_arg_index (the
\* ingested count) and the non-option counter as they were before the
\* call, and a cursor that was inside a group of short options still
\* designates the character the error is about.
C21_ErrorKeepsPosition ==
    Failed =>
        /\ iter.i = pre.i
        /\ argpar_iter_get_ingested_orig_args(iter)
               = argpar_iter_get_ingested_orig_args(pre)
        /\ iter.non_opt_index = pre.non_opt_index
        /\ pre.short_opt_ch # 0 =>
              /\ iter.short_opt_ch = pre.short_opt_ch
              /\ SubSeq(Deref(error), Len(Deref(error)) - 2, Len(Deref(error)))
                     = <<"-", CurArg[iter.short_opt_ch], BQ>>

C21_Witness ==
    /\ ShortCall /\ CurArg = <<"-", "a", "b">>
    /\ pre.i = 1 /\ pre.non_opt_index = 1 /\ pre.short_opt_ch = 3
    /\ status = "ERROR"
    /\ iter = pre

IsStrictPrefix(p, w) == Len(p) < Len(w) /\ SubSeq(w, 1, Len(p)) = p

\* The name with its capital letters turned into small ones
LowerCase(w) == [k \in 1..Len(w) |-> IF w[k] = "F" THEN "f" ELSE w[k]]

\* The name is not the long name of descriptor d but begins it, or differs
\* from it by the case of letters only
NearMiss(name, d) ==
    /\ descrs[d].long_name # NULL
    /\ name # Deref(descrs[d].long_name)
    /\ \/ IsStrictPrefix(name, Deref(descrs[d].long_name))
       \/ LowerCase(name) = LowerCase(Deref(descrs[d].long_name))

\* The name of the long option fits the buffer in which parse_long_opt()
\* isolates a name followed by `=`
NameFitsBuffer == EqPositions = {} \/ Len(LongName) <= max_len

C22_WitnessCase ==
    /\ LongCall /\ LongName = <<"F", "r", "a", "c", "t", "i", "o", "n">>
    /\ descrs = DescrsFraction
    /\ status = "ERROR_UNKNOWN_OPT"

\* Name of the long option written in original argument a
NameOfLongArg(a) ==
    LET body == SubSeq(a, 3, Len(a))
        eqs == {j \in 1..Len(body) : body[j] = "="}
    IN  IF eqs = {} THEN body ELSE SubSeq(body, 1, Min(eqs) - 1)

\* The descriptors of the table that entry e of the history can name: those
\* whose short name is its character, or whose long name is its name
Candidates(e) ==
    IF e.ch # 0
    THEN ShortDescrs(argv[e.arg_index + 1][e.ch])
    ELSE LongDescrs(NameOfLongArg(argv[e.arg_index + 1]))

OptEntries == {k \in 1..Len(produced) : produced[k].item.type = "OPT"}

\* C23: every option item references the first descriptor of the table, in
\* table order, whose short name is the character looked up, for a short
\* option, or whose long name is the name looked up, for a long option; a
\* missing or unexpected argument error is decided by that first descriptor;
\* a character is never matched with a long name, nor a name with a short
\* name.
C23_FirstMatch ==
    /\ \A k \in OptEntries :
          /\ Candidates(produced[k]) # {}
          /\ produced[k].item.descr = Min(Candidates(produced[k]))
    /\ (ShortCall /\ ShortDescrs(CurArg[PreCursor]) # {} /\ status = "ERROR") =>
          /\ MessageKind(error) = "Missing required argument for option "
          /\ descrs[Min(ShortDescrs(CurArg[PreCursor]))].with_arg
    /\ (LongCall /\ NameFitsBuffer /\ LongDescrs(LongName) # {}
           /\ status = "ERROR") =>
          IF descrs[Min(LongDescrs(LongName))].with_arg
          THEN MessageKind(error) = "Missing required argument for option "
          ELSE MessageKind(error) = "Unexpected argument for option "

C23_Witness ==
    /\ descrs = DescrsLongOnly
    /\ Len(produced) = 1 /\ OptEntries = {1}
    /\ produced[1].ch = 2 /\ produced[1].item.descr = 2
    /\ LongCall /\ CurArg = <<"-", "-", "a">>
    /\ status = "ERROR"
    /\ MessageKind(error) = "Missing required argument for option "

\* Descriptor d has a name that another descriptor of the table has too
HasTwin(d) ==
    \E d2 \in (1..Len(descrs)) \ {d} :
        \/ descrs[d].short_name # NUL
             /\ descrs[d].short_name = descrs[d2].short_name
        \/ descrs[d].long_name # NULL
             /\ descrs[d].long_name = descrs[d2].long_name

\* Some short or long option of the command line is looked up as d
Bindable(d) ==
    \/ \E c \in Alphabet : find_descr(descrs, c, NULL) = d
    \/ \E d2 \in 1..Len(descrs) :
          /\ descrs[d2].long_name # NULL
          /\ find_descr(descrs, NUL, descrs[d2].long_name) = d

\* C24: when the table holds two descriptors with the same name, each of
\* the two can be bound by an occurrence of that name: the lookup of some
\* option gives it.
C24_EitherDuplicateBinds ==
    \A d \in 1..Len(descrs) : HasTwin(d) => Bindable(d)

\* Every name of descriptor d is the name of a descriptor before it
Shadowed(d) ==
    /\ descrs[d].short_name # NUL =>
          \E d2 \in 1..(d - 1) : descrs[d2].short_name = descrs[d].short_name
    /\ descrs[d].long_name # NULL =>
          \E d2 \in 1..(d - 1) : descrs[d2].long_name = descrs[d].long_name

\* C24 (amended): when the table holds two descriptors with the same name,
\* every occurrence of that name binds to the one that comes first in the
\* table: no option item references a descriptor that comes after another
\* one with the name looked up, and a descriptor all of whose names are
\* names of earlier descriptors is referenced by no item and is found by no
\* lookup.
C24_FirstDuplicateBinds ==
    /\ \A k \in OptEntries :
          /\ ~Shadowed(produced[k].item.descr)
          /\ \A d2 \in 1..(produced[k].item.descr - 1) :
                d2 \notin Candidates(produced[k])
    /\ \A d \in 1..Len(descrs) : Shadowed(d) => ~Bindable(d)

C24_Witness ==
    /\ descrs = DescrsLongOnly /\ HasTwin(3) /\ Shadowed(3)
    /\ Len(produced) = 2 /\ OptEntries = {1, 2}
    /\ produced[1].item.descr = 2 /\ produced[2].item.descr = 2
    /\ produced[1].arg_index = 0 /\ produced[2].arg_index = 1
    /\ status = "END"

\* C25: a next call on a long option written with `=' whose name, of any
\* length, is the long name of a descriptor that takes an argument returns
\* one option item for that descriptor, with the text after the `=' as
\* argument, and no error; the ingested count advances by 1.
C25_LongNameAnyLength ==
    \A d \in 1..Len(descrs) :
        (LongCall /\ EqPositions # {} /\ LongDescrs(LongName) # {}
           /\ d = Min(LongDescrs(LongName)) /\ descrs[d].with_arg) =>
            /\ status = "OK"
            /\ error = NULL
            /\ item = Ptr([type |-> "OPT", descr |-> d,
                           arg |-> Ptr(SubSeq(Body, Min(EqPositions) + 1,
                                              Len(Body)))])
            /\ argpar_iter_get_ingested_orig_args(iter) = pre.i + 1

Meow == <<"m", "e", "o", "w">>

DefMeowItems ==
    << [type |-> "OPT", descr |-> 1, arg |-> NULL],
       [type |-> "OPT", descr |-> 2, arg |-> NULL],
       [type |-> "OPT", descr |-> 3, arg |-> Ptr(Meow)] >>

\* The single original argument `-defmeow' is parsed with the descriptors
\* of d and e, without argument, and of f, with argument
OnDefMeow == argv = <<DefMeow>> /\ descrs = DescrsDEF

\* C30: parsing the single original argument `-defmeow' with descriptors d
\* and e (no argument) and f (argument) to the end yields four items and an
\* ingested count of 1.
C30_FourItems ==
    (OnDefMeow /\ status = "END") =>
        /\ Len(produced) = 4
        /\ argpar_iter_get_ingested_orig_args(iter) = 1

\* C30 (amended): parsing the single original argument `-defmeow' with
\* descriptors d and e (no argument) and f (argument) yields, without any
\* error, three items in this order: `-d', `-e', and `-f' with argument
\* `meow'; the ingested count is then 1, also in the result of
\* argpar_parse().
C30_ThreeItems ==
    (OnDefMeow /\ Called) =>
        /\ ~Failed
        /\ Len(produced) <= 3
        /\ \A k \in 1..Len(produced) : produced[k].item = DefMeowItems[k]
        /\ status = "END" =>
              /\ Len(produced) = 3
              /\ argpar_iter_get_ingested_orig_args(iter) = 1
        /\ Parsed =>
              /\ status = "END"
              /\ ItemsAreProduced
              /\ parse_ret.ingested_orig_args = 1

C30_Witness ==
    /\ OnDefMeow /\ Parsed
    /\ Len(produced) = 3
    /\ produced[3].item.arg = Ptr(Meow)
    /\ parse_ret.ingested_orig_args = 1

\* The original arguments that give an item back: an option with a long
\* name as `--name', or `--name=value' when it has an argument; an option
\* with a short name only as `-c', followed by its argument as an original
\* argument of its own; a non-option argument as its text
SerialiseItem(itm) ==
    IF itm.type = "NON_OPT" THEN <<itm.arg>>
    ELSE IF descrs[itm.descr].long_name # NULL
    THEN IF itm.arg = NULL
         THEN << <<"-", "-">> \o Deref(descrs[itm.descr].long_name) >>
         ELSE << <<"-", "-">> \o Deref(descrs[itm.descr].long_name)
                 \o <<"=">> \o Deref(itm.arg) >>
    ELSE IF itm.arg = NULL
         THEN << <<"-", descrs[itm.descr].short_name>> >>
         ELSE << <<"-", descrs[itm.descr].short_name>>, Deref(itm.arg) >>

RECURSIVE Serialise(_)
Serialise(hist) ==
    IF hist = <<>> THEN <<>>
    ELSE SerialiseItem(hist[1].item) \o Serialise(Tail(hist))

\* What two item sequences are compared on: kind, descriptor and argument of
\* the options, kind and text of the non-options
Shape(hist) ==
    [k \in 1..Len(hist) |->
        IF hist[k].item.type = "NON_OPT"
        THEN [type |-> "NON_OPT", arg |-> hist[k].item.arg]
        ELSE hist[k].item]

\* Parsing the original arguments that serialise the items returned, with
\* the same descriptors, reaches the end and returns the same sequence of
\* items: same kinds, descriptors, option arguments and non-option texts,
\* in the same order
SameAgain ==
    LET again == argpar_parse(Serialise(produced), descrs, TRUE)
    IN  /\ again.last.status = "END"
        /\ again.parse_ret.items # NULL
        /\ Shape(again.produced) = Shape(produced)

LongNamesFindTheirItems ==
    \A k \in OptEntries :
        LET d == produced[k].item.descr
        IN  descrs[d].long_name # NULL =>
                find_descr(descrs, NUL, descrs[d].long_name) = d

C26_WitnessShortOnly ==
    /\ descrs = DescrsLongOnly
    /\ argv = << <<"-", "a", "b", "-", "a">> >>
    /\ status = "END"
    /\ Serialise(produced) = << <<"-", "a">>, <<"-", "b">>, <<"-", "a">> >>

\* C27: a next call sets an item exactly when it returns OK and, no
\* allocation failing, an error message exactly when it returns an error
\* status: with OK the item is set and the error is NULL, at the end both
\* are NULL, with an error status no item is set and the error is set.
C27_ItemXorError ==
    Called =>
        /\ status \in {"OK", "END", "ERROR", "ERROR_UNKNOWN_OPT"}
        /\ status = "OK" => item # NULL /\ error = NULL
        /\ status = "END" => item = NULL /\ error = NULL
        /\ Failed => item = NULL /\ error # NULL
        /\ item # NULL <=> status = "OK"
        /\ error # NULL <=> Failed

C27_Witness ==
    /\ pc = "iter" /\ oom = "NONE"
    /\ Len(produced) = 1
    /\ status = "ERROR" /\ item = NULL /\ error # NULL
    /\ MessageKind(error) = MsgMissingLong(<<"a">>)[1]

C27_WitnessOK ==
    /\ pc = "iter" /\ status = "OK" /\ item # NULL /\ error = NULL
    /\ Len(produced) = 2

C27_WitnessEnd ==
    /\ pc = "iter" /\ status = "END" /\ item = NULL /\ error = NULL
    /\ Len(produced) = 2

\* C28: the result of argpar_parse() always has exactly one of items and
\* error set: items and no error when it succeeds, an error and no items
\* when it fails.
C28_ItemsXorError ==
    Parsed =>
        \/ parse_ret.items # NULL /\ parse_ret.error = NULL
        \/ parse_ret.items = NULL /\ parse_ret.error # NULL

\* What the first n next calls of an iterator return when it is the only
\* one, from the iterator `it'
RECURSIVE RunAlone(_, _)
RunAlone(it, n) ==
    IF n = 0 THEN <<>>
    ELSE LET r == argpar_iter_parse_next(argv, descrs, it)
         IN  <<Returned(r)>> \o RunAlone(r.iter, n - 1)

C31_NoItemSeenAgain ==
    (Parsed /\ parse_ret.items # NULL) =>
        /\ ItemsAreProduced
        /\ \A e \in 1..Len(produced) :
              produced[e].arg_index < parse_ret.ingested_orig_args

\* C32: a short option that takes an argument and is the last character of
\* its original argument takes the following original argument as its
\* argument, the empty string included (a present, empty argument); the
\* missing-argument error is reported only when no original argument
\* follows; and an argument taken from the rest of the option's own
\* original argument is never empty.
C32_ShortArgAfterSpace ==
    /\ \A d \in 1..Len(descrs) :
         (SpaceForm(d) /\ ShortCall) =>
            IF pre.i + 1 < Len(argv)
            THEN /\ ReturnedOne([type |-> "OPT", descr |-> d,
                                 arg |-> Ptr(argv[pre.i + 2])])
                 /\ Deref(item).arg # NULL
                 /\ iter.i = pre.i + 2
            ELSE /\ status = "ERROR" /\ item = NULL
                 /\ error = Ptr(WhileParsing
                                \o MsgMissingShort(CurArg[PreCursor]))
    /\ (ShortCall /\ Failed
          /\ MessageKind(error) = MsgMissingShort(CurArg[PreCursor])[1]) =>
         /\ pre.i + 1 = Len(argv)
         /\ PreCursor = Len(CurArg)
    /\ \A e \in OptEntries :
         (produced[e].ch >= 2 /\ produced[e].item.arg # NULL
            /\ produced[e].i_after = produced[e].arg_index + 1) =>
            /\ produced[e].ch < Len(argv[produced[e].arg_index + 1])
            /\ Deref(produced[e].item.arg) # <<>>

C32_Witness ==
    /\ argv = << <<"-", "a", "b">>, <<>> >>
    /\ descrs = DescrsAB
    /\ ShortCall /\ pre.short_opt_ch = 3
    /\ status = "OK" /\ Deref(item).arg = Ptr(<<>>)
    /\ iter.i = 2 /\ iter.short_opt_ch = 0

C32_WitnessMissing ==
    /\ argv = << <<>>, <<"-", "b">> >>
    /\ ShortCall /\ pre.i = 1
    /\ status = "ERROR" /\ error # NULL

C32_WitnessGlued ==
    /\ argv = << <<"-", "b", "=">> >>
    /\ status = "OK" /\ Deref(item).arg = Ptr(<<"=">>)

\* The items the next calls on the iterator `it' return until the first
\* status other than OK, after those of acc, with that status and the
\* ingested count of the iterator then
RECURSIVE Drain(_, _)
Drain(it, acc) ==
    LET r == argpar_iter_parse_next(argv, descrs, it)
    IN  IF r.status = "OK"
        THEN Drain(r.iter, Append(acc, Deref(r.item)))
        ELSE [items |-> acc, status |-> r.status,
              ingested |-> argpar_iter_get_ingested_orig_args(r.iter)]

\* C33: argpar_parse() is the iterator drained: when argpar_parse() without
\* fail_on_unknown_opt succeeds, the items of its array and its
\* ingested_orig_args are the items and the ingested count obtained by
\* calling next on a new iterator on the same arguments and descriptors
\* until the first status other than OK.
C33_ParseIsDrain ==
    (Parsed /\ ~fail_on_unknown_opt /\ parse_ret.items # NULL) =>
        LET d == Drain(argpar_iter_create, <<>>)
        IN  /\ Deref(parse_ret.items).items = d.items
            /\ Deref(parse_ret.items).n_items = Len(d.items)
            /\ parse_ret.ingested_orig_args = d.ingested
            /\ d.status \in {"END", "ERROR_UNKNOWN_OPT"}
            /\ parse_ret.error = NULL

C33_Witness ==
    /\ Parsed /\ ~fail_on_unknown_opt /\ parse_ret.items # NULL
    /\ argv = << <<"a">>, <<"-", "a", "=">> >>
    /\ Drain(argpar_iter_create, <<>>).status = "ERROR_UNKNOWN_OPT"
    /\ Deref(parse_ret.items).n_items = 2
    /\ parse_ret.ingested_orig_args = 1

\* C34: in every state of an iterator 0 <= i <= argc, so that the assertion
\* at the start of a next call holds; a call advances by 2 only when an
\* original argument follows the one it worked on; and the following
\* original argument is read only when it exists: it is computed for the
\* arguments below argc only, never when argc is 0.
C34_IndexInBounds ==
    /\ 0 <= iter.i /\ iter.i <= Len(argv)
    /\ 0 <= pre.i /\ pre.i <= Len(argv)
    /\ \A e \in 1..Len(produced) :
          /\ produced[e].arg_index < Len(argv)
          /\ produced[e].i_after <= Len(argv)
    /\ Called =>
          /\ iter.i \in {pre.i, pre.i + 1, pre.i + 2}
          /\ iter.i = pre.i + 2 =>
                (status = "OK" /\ pre.i + 1 < Len(argv))
          /\ OnArg =>
                (unsigned_lt_pred(pre.i, Len(argv)) <=> pre.i + 2 <= Len(argv))
          /\ Len(argv) = 0 => (status = "END" /\ ~OnArg /\ iter.i = 0)

C34_Witness ==
    /\ pc = "iter" /\ Len(argv) = 3
    /\ pre.i = 1 /\ iter.i = 3 /\ status = "OK"
    /\ item # NULL /\ Deref(item).arg = Ptr(argv[3])

C34_WitnessEmpty ==
    /\ argv = <<>> /\ Called /\ status = "END" /\ iter.i = 0

\* C35: between calls the cursor of the group of short options is set only
\* when i < argc, the original argument at i starts with a single `-'
\* followed by at least one character, and the cursor designates a character
\* of that argument after the `-' and before its end; a call that returns OK
\* for the last character of a group, or for a short option that takes an
\* argument, clears the cursor.
C35_CursorInGroup ==
    /\ iter.short_opt_ch # 0 =>
          /\ iter.i < Len(argv)
          /\ IsShortArg(argv[iter.i + 1])
          /\ iter.short_opt_ch >= 2
          /\ iter.short_opt_ch <= Len(argv[iter.i + 1])
    /\ (ShortCall /\ status = "OK") =>
          /\ ShortDescrs(CurArg[PreCursor]) # {}
          /\ (\/ PreCursor = Len(CurArg)
              \/ descrs[Min(ShortDescrs(CurArg[PreCursor]))].with_arg) =>
                 iter.short_opt_ch = 0
    /\ (Called /\ ~ShortCall) => iter.short_opt_ch = 0

C35_Witness ==
    /\ pc = "iter" /\ ShortCall /\ Len(CurArg) = 4
    /\ pre.short_opt_ch = 0 /\ iter.short_opt_ch = 3
    /\ status = "OK" /\ iter.i = pre.i /\ pre.i = 1

C35_WitnessCleared ==
    /\ pc = "iter" /\ ShortCall /\ Len(CurArg) = 3
    /\ pre.short_opt_ch = 3 /\ iter.short_opt_ch = 0
    /\ status = "OK" /\ iter.i = pre.i + 1

C35_WitnessError ==
    /\ pc = "iter" /\ ShortCall /\ Failed
    /\ pre.short_opt_ch = 0 /\ iter.short_opt_ch = 2

\* C36: an option item has an argument exactly when its descriptor takes
\* one: with with_arg the argument of the item is not NULL (it can be
\* empty), without with_arg it is NULL.
C36_ArgIffWithArg ==
    /\ \A e \in OptEntries :
          descrs[produced[e].item.descr].with_arg
              <=> produced[e].item.arg # NULL
    /\ (item # NULL /\ Deref(item).type = "OPT") =>
          (descrs[Deref(item).descr].with_arg <=> Deref(item).arg # NULL)
    /\ (Parsed /\ parse_ret.items # NULL) =>
          \A k \in 1..Len(Deref(parse_ret.items).items) :
              LET itm == Deref(parse_ret.items).items[k]
              IN  itm.type = "OPT" =>
                    (descrs[itm.descr].with_arg <=> itm.arg # NULL)

C36_Witness ==
    /\ \E e \in OptEntries :
          /\ descrs[produced[e].item.descr].with_arg
          /\ produced[e].item.arg = Ptr(<<>>)
    /\ \E e \in OptEntries :
          /\ ~descrs[produced[e].item.descr].with_arg
          /\ produced[e].item.arg = NULL
    /\ Parsed /\ parse_ret.items # NULL

\* C37: an error is stable: when a next call has returned an error status,
\* the next call on the same iterator returns the same status and the same
\* message, sets no item and leaves i, the non-option counter and the
\* cursor as they are; the offending original argument is never skipped and
\* no item comes from a later argument.
C37_ErrorIsStable ==
    Failed =>
        LET again == argpar_iter_parse_next(argv, descrs, iter)
        IN  /\ again.status = status
            /\ again.error = error
            /\ again.item = NULL
            /\ again.iter = iter
            /\ iter.i = pre.i
            /\ \A e \in 1..Len(produced) : produced[e].arg_index <= iter.i

C37_Witness ==
    /\ pc = "iter" /\ status = "ERROR_UNKNOWN_OPT"
    /\ ShortCall /\ pre.short_opt_ch = 2 /\ pre = iter
    /\ ShortDescrs(CurArg[2]) = {}
    /\ pre.i = 1 /\ Len(produced) = 1 /\ Len(argv) = 3

\* The number of items an original argument can give: one per character
\* after the `-' of a group of short options, one for any other argument
MaxItemsOf(a) == IF IsShortArg(a) THEN Len(a) - 1 ELSE 1

RECURSIVE MaxItems(_)
MaxItems(av) ==
    IF av = <<>> THEN 0 ELSE MaxItemsOf(av[1]) + MaxItems(Tail(av))

\* C38: parsing terminates: the next calls of an iterator return OK at most
\* once per original argument that is not a group of short options, plus
\* once per character after the `-' of each group, so that a status other
\* than OK comes after finitely many calls; the loop of argpar_parse() ends,
\* on such a status.
C38_BoundedItems ==
    /\ Len(produced) <= MaxItems(argv)
    /\ Len(produced) <= MaxItems(SubSeq(argv, 1, iter.i))
                          + (IF iter.short_opt_ch = 0 THEN 0
                             ELSE iter.short_opt_ch - 2)
    /\ Parsed =>
          /\ status \in {"END", "ERROR", "ERROR_UNKNOWN_OPT"}
          /\ parse_ret.items # NULL =>
                Deref(parse_ret.items).n_items <= MaxItems(argv)

C38_Witness ==
    /\ argv = << <<"a">>, <<"-", "a", "a", "a">> >>
    /\ Len(produced) = 4 /\ MaxItems(argv) = 4
    /\ status = "END"

\* The capacity of an array of n items that started with initial_size slots
\* and doubled each time a push found it full
RECURSIVE CapacityFrom(_, _)
CapacityFrom(cap, n) == IF n <= cap THEN cap ELSE CapacityFrom(cap * 2, n)

\* C39: the item array of argpar_parse() has n_items <= n_alloc in every
\* state; it starts with 10 slots and doubles its capacity exactly when a
\* push finds it full; a push stores the item after the items already
\* stored, which keep their places.
C39_ArrayGrowth ==
    (pc \in {"loop", "parse_end"} /\ parse_ret.items # NULL) =>
        LET arr == Deref(parse_ret.items)
        IN  /\ arr.n_items <= arr.n_alloc
            /\ arr.n_items = Len(arr.items)
            /\ arr.n_alloc = CapacityFrom(initial_size, arr.n_items)
            /\ Len(produced) = 0 => arr = create_item_array
            /\ arr.items = [k \in 1..Len(produced) |-> produced[k].item]

C39_Witness ==
    /\ pc = "loop" /\ parse_ret.items # NULL
    /\ Deref(parse_ret.items).n_items = 21
    /\ Deref(parse_ret.items).n_alloc = 40
    /\ status = "OK"

C39_WitnessFull ==
    /\ pc = "loop" /\ parse_ret.items # NULL
    /\ Deref(parse_ret.items).n_items = 10
    /\ Deref(parse_ret.items).n_alloc = 10

====
